---- MODULE Spec2Model ----
(***************************************************************************)
(* A model of the association engine of src/src/associations.mjs:          *)
(* carriers with their hidden Store slot, SourceWrapper, associate,        *)
(* associated, disassociate, and the host's reclamation of sources.        *)
(***************************************************************************)
EXTENDS Naturals, Sequences, FiniteSets, TLC

(* ---------------------------------------------------------------------- *)
(* Bounds and input sets                                                    *)
(* ---------------------------------------------------------------------- *)

\* number of API calls (associate / associated / disassociate) in a behaviour
MaxOps == 3

\* JS values: "undefined" and "null" are the two nullish values
Undefined == "undefined"
Null == "null"
Values == {Undefined, Null, "a"}
Defaults == {Undefined, "d"}

\* the three symbols of associations.mjs:36-43
kDefaultKey == "DEFAULT"
kAllKeys == "ALL"
UserKeys == {"k1"}
SubKeys == {kDefaultKey, kAllKeys} \cup UserKeys

\* sources: "p" a string, "o" a plain object
PrimSources == {"p"}
ObjSources == {"o"}
Sources == PrimSources \cup ObjSources
\* "f" a function: an object whose typeof is 'function'; the program holds
\* it for as long as it runs
FnSources == {"f"}

\* carriers: globalThis, a plain object, and an object created with
\* Object.create(base)
globalThis == "G"
Carriers == {globalThis, "base", "derived"}
NoCarrier == "none"
Proto(c) == IF c = "derived" THEN "base" ELSE NoCarrier

\* comparator predicates handed to associated(); "none" is options.comparator
\* left out
Comparators == {"none", "isO"}
Satisfies(cmp, obj) == cmp = "isO" /\ obj = "o"

VARIABLES
  slot,      \* slot[c]: the own property c[kStorageMapKey]: has, and the Map
  extRefs,   \* object sources the caller still holds a reference to
  reclaimed, \* object sources the host has collected
  detached,  \* wrappers outside of every Store: taken out by disassociate,
             \* or made by a caller with new SourceWrapper (the class is
             \* exported); wrappers equal in every field are one element
  called,    \* history: the <<carrier, source>> pairs associate was called for
  last,      \* the last call, its arguments and what it returned
  nops       \* number of API calls made

vars == <<slot, extRefs, reclaimed, detached, called, last, nops>>

(* ---------------------------------------------------------------------- *)
(* Map helpers: a Map of sub-key -> value is a function on its key set     *)
(* ---------------------------------------------------------------------- *)

EmptyMap == [k \in {} |-> Undefined]
MapHas(m, k) == k \in DOMAIN m
\* Map.prototype.get: undefined for a missing key
MapGet(m, k) == IF k \in DOMAIN m THEN m[k] ELSE Undefined
MapSet(m, k, v) == [x \in (DOMAIN m) \cup {k} |-> IF x = k THEN v ELSE m[x]]
MapDelete(m, k) == [x \in (DOMAIN m) \ {k} |-> m[x]]

\* a ?? b
Coalesce(a, b) == IF a \in {Undefined, Null} THEN b ELSE a

(* ---------------------------------------------------------------------- *)
(* SourceWrapper                                                            *)
(* ---------------------------------------------------------------------- *)

\* typeof source === 'object' and truthy
IsObject(source) == source \in ObjSources

\* a variant of the constructor that also keeps an object source in value
SourceWrapperBoth(source) ==
  [ isPrimitive  |-> ~IsObject(source),
    associations |-> EmptyMap,
    value        |-> source,
    ref          |-> IF ~IsObject(source) THEN "unset" ELSE source,
    registry     |-> IF ~IsObject(source) THEN "unset" ELSE source ]

\* constructor(source)
SourceWrapper(source) ==
  [ isPrimitive  |-> ~IsObject(source),
    associations |-> EmptyMap,
    value        |-> IF ~IsObject(source) THEN source ELSE "unset",
    ref          |-> IF ~IsObject(source) THEN "unset" ELSE source,
    registry     |-> IF ~IsObject(source) THEN "unset" ELSE source ]

\* WeakRef.prototype.deref
Deref(ref, dead) == IF ref \in dead THEN Undefined ELSE ref

\* SourceWrapper.get()
WrapperGet(w, dead) ==
  IF w.isPrimitive THEN w.value
  ELSE IF w.ref = "unset" THEN Undefined ELSE Deref(w.ref, dead)

\* a variant of the callback that leaves the sub-key mapping as it is
CleanupKeepsAssociations(w) ==
  [w EXCEPT !.ref = "unset", !.registry = "fired"]

\* a variant of the callback that leaves the weak handle as it is
CleanupKeepsRef(w) ==
  [w EXCEPT !.associations = EmptyMap, !.registry = "fired"]

\* the FinalizationRegistry callback of the constructor; the host runs it at
\* most once for the one registration, which "fired" records
Cleanup(w) ==
  [w EXCEPT !.associations = EmptyMap, !.ref = "unset", !.registry = "fired"]

(* ---------------------------------------------------------------------- *)
(* Store: the Map source -> wrapper, in insertion order                    *)
(* ---------------------------------------------------------------------- *)

NoSlot == [has |-> FALSE, map |-> <<>>]
NewSlot == [has |-> TRUE, map |-> <<>>]

\* index of the entry of key src in a Map, 0 when there is none
IndexOf(map, src) ==
  IF \E i \in 1..Len(map) : map[i].src = src
  THEN CHOOSE i \in 1..Len(map) : map[i].src = src
  ELSE 0

\* Map.prototype.delete: the entry leaves, the order of the others stays
RemoveAt(map, i) == [j \in 1..(Len(map) - 1) |-> IF j < i THEN map[j] ELSE map[j + 1]]

\* storage[kStorageMapKey]: the carrier on the prototype chain of storage
\* whose own slot the property read finds, NoCarrier when the read gives
\* undefined
RECURSIVE SlotHolder(_, _)
SlotHolder(sl, storage) ==
  IF storage = NoCarrier THEN NoCarrier
  ELSE IF sl[storage].has THEN storage
  ELSE SlotHolder(sl, Proto(storage))

\* typeof storage === 'object' && storage instanceof Object
IsCarrier(storage) == storage \in Carriers

\* a variant of getStorageMap that attaches a Store whatever create is
GetStorageMapSlotsAlways(sl, storage, create) ==
  IF SlotHolder(sl, storage) # NoCarrier THEN sl
  ELSE [sl EXCEPT ![storage] = NewSlot]

\* getStorageMap(storage, create): the slots after the call
GetStorageMapSlots(sl, storage, create) ==
  IF SlotHolder(sl, storage) # NoCarrier \/ ~create THEN sl
  ELSE [sl EXCEPT ![storage] = NewSlot]

\* getStorageMap(storage, create): the carrier whose Map is returned,
\* NoCarrier when undefined is returned
GetStorageMap(sl, storage, create) ==
  SlotHolder(GetStorageMapSlots(sl, storage, create), storage)

\* removeStorageMap(storage), lines 175-180: the slots afterwards;
\* Reflect.has looks along the prototype chain, delete removes an own
\* property only
RemoveStorageMapSlots(sl, storage) ==
  IF SlotHolder(sl, storage) # NoCarrier /\ sl[storage].has
  THEN [sl EXCEPT ![storage] = NoSlot]
  ELSE sl

\* removeStorageMap(storage): the carrier whose Map is returned, NoCarrier
\* when undefined is returned
RemoveStorageMap(sl, storage) == GetStorageMap(sl, storage, FALSE)

(* ---------------------------------------------------------------------- *)
(* associate                                                                *)
(* ---------------------------------------------------------------------- *)

\* subkey ?? options?.subkey ?? kDefaultKey
ResolveSubkey(subkey, optSubkey) == Coalesce(subkey, Coalesce(optSubkey, kDefaultKey))

\* a parameter or destructured property with the default globalThis: only
\* undefined takes the default
DefaultStorage(storage) == IF storage = Undefined THEN globalThis ELSE storage

\* a variant of the write without the branch for kAllKeys
SetAssociationsNoBroadcast(associations, subkey, value) ==
  MapSet(associations, subkey, value)

\* lines 257-264: the write into wrapper.associations
SetAssociations(associations, subkey, value) ==
  IF subkey = kAllKeys
  THEN [key \in DOMAIN associations |-> value]
  ELSE MapSet(associations, subkey, value)

\* a variant that makes a new wrapper on every call
EnsureWrapperAlways(map, withSource) ==
  Append(map, [src |-> withSource, w |-> SourceWrapper(withSource)])

\* lines 249-255: the Map after the wrapper of withSource was found or made
EnsureWrapper(map, withSource) ==
  IF IndexOf(map, withSource) = 0
  THEN Append(map, [src |-> withSource, w |-> SourceWrapper(withSource)])
  ELSE map

\* the slots after associate(value, withSource, subkey, {storage}) with a
\* valid carrier and a resolved sub-key
AssociateSlots(sl, value, withSource, subkey, storage) ==
  LET sl1 == GetStorageMapSlots(sl, storage, TRUE)
      h == SlotHolder(sl1, storage)
      map == EnsureWrapper(sl1[h].map, withSource)
      i == IndexOf(map, withSource)
  IN [sl1 EXCEPT ![h].map =
        [map EXCEPT ![i].w.associations = SetAssociations(@, subkey, value)]]

(* ---------------------------------------------------------------------- *)
(* associated                                                               *)
(* ---------------------------------------------------------------------- *)

\* wrapper?.get?.() of line 357, wrapper being a source or undefined: neither
\* the string "p" nor the plain object "o" has a method named get, and
\* optional chaining gives undefined
CallGet(x) == Undefined

\* lines 354-364: the scan of storageMap.entries() from entry i on; each
\* entry is [obj, associations] where associations is the SourceWrapper, and
\* associations.get(subkey) is SourceWrapper.get, which takes no argument
RECURSIVE ComparatorScan(_, _, _, _, _, _)
ComparatorScan(map, i, subkey, comparator, defaultValue, dead) ==
  IF i > Len(map) THEN defaultValue
  ELSE LET obj == map[i].src
           associations == map[i].w
           wrapper == WrapperGet(associations, dead)
           value == CallGet(wrapper)
       IN IF Satisfies(comparator, obj) /\ value # Undefined
          THEN value
          ELSE ComparatorScan(map, i + 1, subkey, comparator, defaultValue, dead)

\* lines 367-373: the direct lookup
DirectLookup(map, withObject, subkey, defaultValue) ==
  LET i == IndexOf(map, withObject)
  IN IF i = 0 THEN defaultValue
     ELSE Coalesce(MapGet(map[i].w.associations, subkey), defaultValue)

\* line 347: the slots after associated resolved the Store of a valid carrier
AssociatedSlots(sl, storage) == GetStorageMapSlots(sl, storage, FALSE)

\* what associated(withObject, subkey, {storage, defaultValue, comparator})
\* returns with a valid carrier and a resolved sub-key
AssociatedResult(sl, dead, withObject, subkey, storage, defaultValue, comparator) ==
  LET h == GetStorageMap(sl, storage, FALSE)
  IN IF h = NoCarrier THEN defaultValue
     ELSE IF comparator # "none"
          THEN ComparatorScan(sl[h].map, 1, subkey, comparator, defaultValue, dead)
          ELSE DirectLookup(sl[h].map, withObject, subkey, defaultValue)

(* ---------------------------------------------------------------------- *)
(* disassociate                                                             *)
(* ---------------------------------------------------------------------- *)

\* a variant of the removal that also drops the entry of a source whose last
\* sub-key it removed
DisassociateMapPruning(map, withObject, subkey) ==
  LET i == IndexOf(map, withObject)
  IN IF i = 0 THEN map
     ELSE IF subkey # kAllKeys /\ DOMAIN map[i].w.associations \ {subkey} # {}
          THEN [map EXCEPT ![i].w.associations = MapDelete(@, subkey)]
          ELSE RemoveAt(map, i)

\* lines 441-451 on the Map that was found: the Map afterwards
DisassociateMap(map, withObject, subkey) ==
  LET i == IndexOf(map, withObject)
  IN IF i = 0 THEN map
     ELSE IF subkey # kAllKeys
          THEN [map EXCEPT ![i].w.associations = MapDelete(@, subkey)]
          ELSE RemoveAt(map, i)

\* a variant of the result that reports success whenever the source has an
\* entry
DisassociateMapResultAlways(map, withObject, subkey) ==
  IndexOf(map, withObject) # 0

\* a variant of the result that reports success only for a source that has
\* a sub-key
DisassociateMapResultNonEmpty(map, withObject, subkey) ==
  LET i == IndexOf(map, withObject)
  IN IF i = 0 THEN FALSE
     ELSE IF subkey # kAllKeys
          THEN MapHas(map[i].w.associations, subkey)
          ELSE DOMAIN map[i].w.associations # {}

\* lines 441-451: what is returned
DisassociateMapResult(map, withObject, subkey) ==
  LET i == IndexOf(map, withObject)
  IN IF i = 0 THEN FALSE
     ELSE IF subkey # kAllKeys
          THEN MapHas(map[i].w.associations, subkey)
          ELSE TRUE

DisassociateSlots(sl, withObject, subkey, storageObj) ==
  LET sl1 == GetStorageMapSlots(sl, storageObj, FALSE)
      h == SlotHolder(sl1, storageObj)
  IN IF h = NoCarrier THEN sl1
     ELSE [sl1 EXCEPT ![h].map = DisassociateMap(@, withObject, subkey)]

DisassociateResult(sl, withObject, subkey, storageObj) ==
  LET h == GetStorageMap(sl, storageObj, FALSE)
  IN IF h = NoCarrier THEN FALSE
     ELSE DisassociateMapResult(sl[h].map, withObject, subkey)

\* the wrappers with a pending registration that disassociate took out of
\* the Store
Dropped(sl, withObject, subkey, storageObj) ==
  LET h == GetStorageMap(sl, storageObj, FALSE)
      i == IF h = NoCarrier THEN 0 ELSE IndexOf(sl[h].map, withObject)
  IN IF i # 0 /\ subkey = kAllKeys /\ sl[h].map[i].w.registry \in ObjSources
     THEN {sl[h].map[i].w}
     ELSE {}

(* ---------------------------------------------------------------------- *)
(* What the module exports                                                  *)
(* ---------------------------------------------------------------------- *)

\* the properties of the object the module function returns (lines 554-568)
ExportedNames ==
  {"association", "associate", "associated", "disassociate", "getStorageMap",
   "SourceWrapper", "kDefaultKey", "kStorageMapKey"}

\* export const { name } = Associations (lines 570-587): the value bound to
\* a name, undefined for a name the object does not have
Exported(name, value) == IF name \in ExportedNames THEN value ELSE Undefined

ExportedAllKeys == Exported("kAllKeys", kAllKeys)
ExportedDefaultKey == Exported("kDefaultKey", kDefaultKey)

(* ---------------------------------------------------------------------- *)
(* The calls a program makes                                                *)
(* ---------------------------------------------------------------------- *)

\* the storage argument: left out, a carrier, or a value that is no carrier
StorageArgs == {Undefined, "base", "derived", Null}
\* the sub-key argument paired with options.subkey
SubkeyArgs ==
  {<<k, Undefined>> : k \in SubKeys \cup {Undefined}} \cup {<<Undefined, "k1">>}

Throw == "throw"

\* associate(value, withSource, sk[1], {subkey: sk[2], storage: storageArg}):
\* the slots afterwards and what the caller gets
AssociateCall(sl, value, withSource, sk, storageArg) ==
  LET subkey == ResolveSubkey(sk[1], sk[2])
      storage == DefaultStorage(storageArg)
  IN IF ~IsCarrier(storage)
     THEN [slot |-> sl, ret |-> Throw]
     ELSE [slot |-> AssociateSlots(sl, value, withSource, subkey, storage),
           ret |-> value]

\* associated(withObject, sk[1], {subkey: sk[2], storage, defaultValue,
\* comparator}): what the caller gets
AssociatedCall(sl, dead, withObject, sk, storageArg, defaultValue, comparator) ==
  LET subkey == ResolveSubkey(sk[1], sk[2])
      storage == DefaultStorage(storageArg)
  IN IF ~IsCarrier(storage) THEN Throw
     ELSE AssociatedResult(sl, dead, withObject, subkey, storage,
                           defaultValue, comparator)

\* the slots after that call
AssociatedCallSlots(sl, storageArg) ==
  IF ~IsCarrier(DefaultStorage(storageArg)) THEN sl
  ELSE AssociatedSlots(sl, DefaultStorage(storageArg))

\* disassociate(withObject, subkeyArg, {storage: storageArg}): the slots
\* afterwards, the wrappers that left a Store, and what the caller gets
DisassociateCall(sl, withObject, subkeyArg, storageArg) ==
  LET subkey == IF subkeyArg = Undefined THEN kAllKeys ELSE subkeyArg
      storageObj == Coalesce(storageArg, globalThis)
  IN IF ~IsCarrier(storageObj)
     THEN [slot |-> sl, dropped |-> {}, ret |-> Throw]
     ELSE [slot |-> DisassociateSlots(sl, withObject, subkey, storageObj),
           dropped |-> Dropped(sl, withObject, subkey, storageObj),
           ret |-> IF DisassociateResult(sl, withObject, subkey, storageObj)
                   THEN "true" ELSE "false"]

\* the exported getStorageMap(storageArg, create) called by a program: the
\* slots afterwards and what the caller gets, a Map being told by the carrier
\* whose own slot holds it
GetStorageMapCall(sl, storageArg, create) ==
  LET storage == DefaultStorage(storageArg)
      h == IF IsCarrier(storage) THEN GetStorageMap(sl, storage, create = "true")
           ELSE NoCarrier
  IN IF ~IsCarrier(storage)
     THEN [slot |-> sl, ret |-> Throw]
     ELSE [slot |-> GetStorageMapSlots(sl, storage, create = "true"),
           ret |-> IF h = NoCarrier THEN Undefined ELSE h]

\* calling a value that is no function: a TypeError
NotCallable == "TypeError"

\* the wrappers with a pending registration inside the Store that
\* removeStorageMap takes off its carrier
Removed(sl, storage) ==
  IF SlotHolder(sl, storage) # NoCarrier /\ sl[storage].has
  THEN {sl[storage].map[i].w : i \in {j \in 1..Len(sl[storage].map) :
                                       sl[storage].map[j].w.registry \in ObjSources}}
  ELSE {}

\* the exported removeStorageMap called with storageArg: the slots
\* afterwards, the wrappers that left a carrier and what the caller gets
RemoveStorageMapCall(sl, storageArg) ==
  LET storage == DefaultStorage(storageArg)
      h == IF IsCarrier(storage) THEN RemoveStorageMap(sl, storage) ELSE NoCarrier
  IN IF Exported("removeStorageMap", "function") = Undefined
     THEN [slot |-> sl, dropped |-> {}, ret |-> NotCallable]
     ELSE IF ~IsCarrier(storage)
          THEN [slot |-> sl, dropped |-> {}, ret |-> Throw]
          ELSE [slot |-> RemoveStorageMapSlots(sl, storage),
                dropped |-> Removed(sl, storage),
                ret |-> IF h = NoCarrier THEN Undefined ELSE h]

NoCall ==
  [op |-> "none", ret |-> Undefined, value |-> Undefined, source |-> Undefined,
   subkey |-> Undefined, optSubkey |-> Undefined, storage |-> Undefined,
   defaultValue |-> Undefined, comparator |-> "none", create |-> Undefined]

\* a caller can pass a primitive any time, an object only while it holds it
CanPass(source) == source \in PrimSources \cup FnSources \/ source \in extRefs

Init ==
  /\ slot = [c \in Carriers |-> NoSlot]
  /\ extRefs = ObjSources
  /\ reclaimed = {}
  /\ detached = {}
  /\ called = {}
  /\ last = NoCall
  /\ nops = 0

Associate(value, withSource, sk, storageArg) ==
  LET out == AssociateCall(slot, value, withSource, sk, storageArg)
  IN /\ nops < MaxOps
     /\ CanPass(withSource)
     /\ nops' = nops + 1
     /\ slot' = out.slot
     /\ called' = called \cup {<<DefaultStorage(storageArg), withSource>>}
     /\ last' = [NoCall EXCEPT !.op = "associate", !.ret = out.ret,
                  !.value = value, !.source = withSource, !.subkey = sk[1],
                  !.optSubkey = sk[2], !.storage = storageArg]
     /\ UNCHANGED <<extRefs, reclaimed, detached>>

Associated(withObject, sk, storageArg, defaultValue, comparator) ==
  /\ nops < MaxOps
  /\ CanPass(withObject)
  /\ nops' = nops + 1
  /\ last' = [NoCall EXCEPT !.op = "associated",
               !.ret = AssociatedCall(slot, reclaimed, withObject, sk, storageArg,
                                      defaultValue, comparator),
               !.source = withObject, !.subkey = sk[1], !.optSubkey = sk[2],
               !.storage = storageArg, !.defaultValue = defaultValue,
               !.comparator = comparator]
  /\ slot' = AssociatedCallSlots(slot, storageArg)
  /\ UNCHANGED <<extRefs, reclaimed, detached, called>>

Disassociate(withObject, subkeyArg, storageArg) ==
  LET out == DisassociateCall(slot, withObject, subkeyArg, storageArg)
  IN /\ nops < MaxOps
     /\ CanPass(withObject)
     /\ nops' = nops + 1
     /\ slot' = out.slot
     /\ detached' = detached \cup out.dropped
     /\ last' = [NoCall EXCEPT !.op = "disassociate", !.ret = out.ret,
                  !.source = withObject, !.subkey = subkeyArg,
                  !.storage = storageArg]
     /\ UNCHANGED <<extRefs, reclaimed, called>>

GetStore(storageArg, create) ==
  LET out == GetStorageMapCall(slot, storageArg, create)
  IN /\ nops < MaxOps
     /\ nops' = nops + 1
     /\ slot' = out.slot
     /\ last' = [NoCall EXCEPT !.op = "getStorageMap", !.ret = out.ret,
                  !.storage = storageArg, !.create = create]
     /\ UNCHANGED <<extRefs, reclaimed, detached, called>>

RemoveStore(storageArg) ==
  LET out == RemoveStorageMapCall(slot, storageArg)
  IN /\ nops < MaxOps
     /\ nops' = nops + 1
     /\ slot' = out.slot
     /\ detached' = detached \cup out.dropped
     /\ last' = [NoCall EXCEPT !.op = "removeStorageMap", !.ret = out.ret,
                  !.storage = storageArg]
     /\ UNCHANGED <<extRefs, reclaimed, called>>

(* ---------------------------------------------------------------------- *)
(* association: the [getter, setter, forget] closures                       *)
(* ---------------------------------------------------------------------- *)

\* the parameter subkey = kDefaultKey of association()
AssociationSubkey(subkeyArg) ==
  IF subkeyArg = Undefined THEN kDefaultKey ELSE subkeyArg

\* getter(defaultValue) of association(withObject, subkeyArg,
\* {storage: storageArg}); options left out is storageArg undefined
Getter(sl, dead, withObject, subkeyArg, storageArg, defaultValue) ==
  AssociatedCall(sl, dead, withObject, <<AssociationSubkey(subkeyArg), Undefined>>,
                 storageArg, defaultValue, "none")

\* setter(value) of the same tuple
Setter(sl, value, withObject, subkeyArg, storageArg) ==
  AssociateCall(sl, value, withObject, <<AssociationSubkey(subkeyArg), Undefined>>,
                storageArg)

\* forget() of the same tuple
Forget(sl, withObject, subkeyArg, storageArg) ==
  DisassociateCall(sl, withObject, AssociationSubkey(subkeyArg), storageArg)

TupleSet(value, withObject, subkeyArg, storageArg) ==
  LET out == Setter(slot, value, withObject, subkeyArg, storageArg)
  IN /\ nops < MaxOps
     /\ CanPass(withObject)
     /\ nops' = nops + 1
     /\ slot' = out.slot
     /\ called' = called \cup {<<DefaultStorage(storageArg), withObject>>}
     /\ last' = [NoCall EXCEPT !.op = "set", !.ret = out.ret, !.value = value,
                  !.source = withObject, !.subkey = subkeyArg,
                  !.storage = storageArg]
     /\ UNCHANGED <<extRefs, reclaimed, detached>>

TupleGet(withObject, subkeyArg, storageArg, defaultValue) ==
  /\ nops < MaxOps
  /\ CanPass(withObject)
  /\ nops' = nops + 1
  /\ last' = [NoCall EXCEPT !.op = "get",
               !.ret = Getter(slot, reclaimed, withObject, subkeyArg, storageArg,
                              defaultValue),
               !.source = withObject, !.subkey = subkeyArg,
               !.storage = storageArg, !.defaultValue = defaultValue]
  /\ slot' = AssociatedCallSlots(slot, storageArg)
  /\ UNCHANGED <<extRefs, reclaimed, detached, called>>

TupleForget(withObject, subkeyArg, storageArg) ==
  LET out == Forget(slot, withObject, subkeyArg, storageArg)
  IN /\ nops < MaxOps
     /\ CanPass(withObject)
     /\ nops' = nops + 1
     /\ slot' = out.slot
     /\ detached' = detached \cup out.dropped
     /\ last' = [NoCall EXCEPT !.op = "forget", !.ret = out.ret,
                  !.source = withObject, !.subkey = subkeyArg,
                  !.storage = storageArg]
     /\ UNCHANGED <<extRefs, reclaimed, called>>

(* ---------------------------------------------------------------------- *)
(* The host: references, reclamation, finalization                          *)
(* ---------------------------------------------------------------------- *)

HostStep(what) == [NoCall EXCEPT !.op = what]

\* a Map holds its keys strongly: a source that is a key of a Store is
\* reachable from the Store's carrier
StronglyHeld(sl, source) ==
  \E c \in Carriers : \E i \in 1..Len(sl[c].map) : sl[c].map[i].src = source

\* the program lets go of its last reference to an object source
DropRef(source) ==
  /\ source \in extRefs
  /\ extRefs' = extRefs \ {source}
  /\ last' = HostStep("dropRef")
  /\ UNCHANGED <<slot, reclaimed, detached, called, nops>>

\* new SourceWrapper(source), called by a program that keeps the wrapper
Wrap(source) ==
  /\ CanPass(source)
  /\ SourceWrapper(source) \notin detached
  /\ detached' = detached \cup {SourceWrapper(source)}
  /\ last' = [HostStep("wrap") EXCEPT !.source = source]
  /\ UNCHANGED <<slot, extRefs, reclaimed, called, nops>>

\* the host collects an object that nothing reaches any more
Reclaim(source) ==
  /\ source \in ObjSources \ (extRefs \cup reclaimed)
  /\ ~StronglyHeld(slot, source)
  /\ reclaimed' = reclaimed \cup {source}
  /\ last' = HostStep("reclaim")
  /\ UNCHANGED <<slot, extRefs, detached, called, nops>>

\* the wrappers whose registration for the source is pending, each with its
\* place: carrier c and position i inside a Store, NoCarrier and 0 outside
Registered(sl, det, source) ==
  {[c |-> c, i |-> i, w |-> sl[c].map[i].w] :
     <<c, i>> \in {x \in Carriers \X (1..Cardinality(Sources)) :
                     /\ x[2] <= Len(sl[x[1]].map)
                     /\ sl[x[1]].map[x[2]].w.registry = source}}
  \cup {[c |-> NoCarrier, i |-> 0, w |-> w] : w \in {x \in det : x.registry = source}}

\* the host runs the cleanup callback of one wrapper whose registered source
\* was collected; each wrapper has a registry and a callback of its own
Finalize(source) ==
  /\ source \in reclaimed
  /\ \E t \in Registered(slot, detached, source) :
       /\ slot' = IF t.c # NoCarrier
                  THEN [slot EXCEPT ![t.c].map[t.i].w = Cleanup(@)]
                  ELSE slot
       /\ detached' = IF t.c = NoCarrier
                      THEN (detached \ {t.w}) \cup {Cleanup(t.w)}
                      ELSE detached
  /\ last' = HostStep("finalize")
  /\ UNCHANGED <<extRefs, reclaimed, called, nops>>

Next ==
  \/ \E value \in Values, withSource \in Sources, sk \in SubkeyArgs,
        storageArg \in StorageArgs :
        Associate(value, withSource, sk, storageArg)
  \/ \E withObject \in Sources, sk \in SubkeyArgs, storageArg \in StorageArgs,
        defaultValue \in Defaults, comparator \in Comparators :
        Associated(withObject, sk, storageArg, defaultValue, comparator)
  \/ \E withObject \in Sources, subkeyArg \in SubKeys \cup {Undefined},
        storageArg \in StorageArgs :
        Disassociate(withObject, subkeyArg, storageArg)
  \/ \E source \in ObjSources : DropRef(source)
  \/ \E source \in ObjSources : Reclaim(source)
  \/ \E source \in ObjSources : Finalize(source)

Spec == Init /\ [][Next]_vars

\* a program that works through association() tuples only
TupleNext ==
  \/ \E value \in Values, withObject \in Sources,
        subkeyArg \in SubKeys \cup {Undefined}, storageArg \in StorageArgs :
        TupleSet(value, withObject, subkeyArg, storageArg)
  \/ \E withObject \in Sources, subkeyArg \in SubKeys \cup {Undefined},
        storageArg \in StorageArgs, defaultValue \in Defaults :
        TupleGet(withObject, subkeyArg, storageArg, defaultValue)
  \/ \E withObject \in Sources, subkeyArg \in SubKeys \cup {Undefined},
        storageArg \in StorageArgs :
        TupleForget(withObject, subkeyArg, storageArg)
  \/ \E source \in ObjSources : DropRef(source)
  \/ \E source \in ObjSources : Reclaim(source)
  \/ \E source \in ObjSources : Finalize(source)

TupleSpec == Init /\ [][TupleNext]_vars

\* a program that also calls getStorageMap and removeStorageMap itself, on
\* every carrier
StoreNext ==
  \/ \E withSource \in Sources, subkey \in {Undefined, "k1", kAllKeys},
        storageArg \in StorageArgs :
        Associate("a", withSource, <<subkey, Undefined>>, storageArg)
  \/ \E withObject \in Sources, subkey \in {Undefined, "k1"},
        storageArg \in StorageArgs :
        Associated(withObject, <<subkey, Undefined>>, storageArg, Undefined, "none")
  \/ \E withObject \in Sources, subkeyArg \in {Undefined, "k1", kDefaultKey},
        storageArg \in StorageArgs :
        Disassociate(withObject, subkeyArg, storageArg)
  \/ \E storageArg \in StorageArgs, create \in {"true", "false"} :
        GetStore(storageArg, create)
  \/ \E storageArg \in StorageArgs : RemoveStore(storageArg)
  \/ \E source \in ObjSources : DropRef(source)
  \/ \E source \in ObjSources : Reclaim(source)
  \/ \E source \in ObjSources : Finalize(source)

StoreSpec == Init /\ [][StoreNext]_vars

\* a program that makes plain calls on globalThis and on base, and also makes
\* wrappers of its own
LifecycleNext ==
  \/ \E withSource \in Sources, subkey \in {Undefined, "k1"},
        storageArg \in {Undefined, "base"} :
        Associate("a", withSource, <<subkey, Undefined>>, storageArg)
  \/ \E withObject \in Sources, subkey \in {Undefined, "k1"} :
        Associated(withObject, <<subkey, Undefined>>, Undefined, Undefined, "none")
  \/ \E withObject \in Sources, subkeyArg \in {Undefined, "k1"},
        storageArg \in {Undefined, "base"} :
        Disassociate(withObject, subkeyArg, storageArg)
  \/ \E source \in Sources \cup FnSources : Wrap(source)
  \/ \E source \in ObjSources : DropRef(source)
  \/ \E source \in ObjSources : Reclaim(source)
  \/ \E source \in ObjSources : Finalize(source)

LifecycleSpec == Init /\ [][LifecycleNext]_vars

\* the host eventually collects what can be collected and eventually runs
\* the cleanup callbacks that are due; the program itself may stop any time
FairSpec ==
  /\ Spec
  /\ WF_vars(\E source \in ObjSources : Reclaim(source))
  /\ WF_vars(\E source \in ObjSources : Finalize(source))

(* ---------------------------------------------------------------------- *)
(* Vocabulary of the claims                                                 *)
(* ---------------------------------------------------------------------- *)

\* the sub-key and the carrier the last associate / associated call resolved
LastKey == ResolveSubkey(last.subkey, last.optSubkey)
LastCarrier == DefaultStorage(last.storage)
\* the same for the last disassociate call
LastRemovedKey == IF last.subkey = Undefined THEN kAllKeys ELSE last.subkey
LastRemovalCarrier == Coalesce(last.storage, globalThis)

\* a step that is a new call of the named operation that did not throw
IsCall(op) == last'.op = op /\ nops' = nops + 1 /\ last'.ret # Throw

\* the Store a carrier resolves to holds an entry for the source
HasEntry(sl, c, source) ==
  /\ SlotHolder(sl, c) # NoCarrier
  /\ IndexOf(sl[SlotHolder(sl, c)].map, source) # 0

\* the sub-key mapping of the source in the Store the carrier resolves to
AssocOf(sl, c, source) ==
  IF HasEntry(sl, c, source)
  THEN LET map == sl[SlotHolder(sl, c)].map
       IN map[IndexOf(map, source)].w.associations
  ELSE EmptyMap

\* what a direct associated(source, subkey, {storage: c, defaultValue: d})
\* returns in a state
Read(sl, dead, c, source, subkey, d) ==
  AssociatedResult(sl, dead, source, subkey, c, d, "none")

(* ---------------------------------------------------------------------- *)
(* Claims                                                                   *)
(* ---------------------------------------------------------------------- *)

\* C1 (round trip): associate(value, source, subkey) with a sub-key other than
\* ALL, followed immediately by associated(source, subkey) on the same carrier
\* with no options besides the carrier, returns exactly value.
C1_RoundTrip ==
  [][(/\ last.op = "associate" /\ last.ret # Throw /\ LastKey # kAllKeys
      /\ IsCall("associated")
      /\ last'.source = last.source /\ last'.subkey = last.subkey
      /\ last'.optSubkey = last.optSubkey /\ last'.storage = last.storage
      /\ last'.comparator = "none" /\ last'.defaultValue = Undefined)
     => last'.ret = last.value]_vars

\* the result the comparator mode is specified to give: the value under subkey
\* of the first entry, in Store order, whose source satisfies the comparator
\* and whose wrapper holds a value other than undefined under subkey
RECURSIVE FirstMatch(_, _, _, _, _)
FirstMatch(map, i, subkey, comparator, defaultValue) ==
  IF i > Len(map) THEN defaultValue
  ELSE IF /\ Satisfies(comparator, map[i].src)
          /\ MapGet(map[i].w.associations, subkey) # Undefined
       THEN map[i].w.associations[subkey]
       ELSE FirstMatch(map, i + 1, subkey, comparator, defaultValue)

\* C2 (comparator lookup): with a comparator, associated returns the value
\* stored under subkey in the wrapper of the first entry whose source satisfies
\* the comparator and that has such a value, and defaultValue if there is none.
C2_ComparatorLookup ==
  (last.op = "associated" /\ last.ret # Throw /\ last.comparator # "none")
  => last.ret =
       IF SlotHolder(slot, LastCarrier) = NoCarrier THEN last.defaultValue
       ELSE FirstMatch(slot[SlotHolder(slot, LastCarrier)].map, 1, LastKey,
                       last.comparator, last.defaultValue)

\* the own Store of carrier c holds sub-keys for the source
HasAssociations(c, source) ==
  \E i \in 1..Len(slot[c].map) :
     slot[c].map[i].src = source /\ DOMAIN slot[c].map[i].w.associations # {}

\* C3 (eventual auto-eviction): under a fair host, once the program holds no
\* reference to an object source that has associations on a carrier, the
\* source's sub-key mapping on that carrier eventually becomes empty.
C3_EventualEviction ==
  \A c \in Carriers : \A source \in ObjSources :
     (source \notin extRefs /\ HasAssociations(c, source))
        ~> ~HasAssociations(c, source)

\* C4 (no strong reference): the Stores never hold an object source strongly,
\* so a source the program no longer references is eligible for reclamation.
C4_NeverKeepsAlive ==
  \A source \in ObjSources :
     (source \notin extRefs /\ source \notin reclaimed)
        => ~StronglyHeld(slot, source)

\* C5 (direct mode): without a comparator, associated returns the stored value
\* whenever the sub-key is present in the source's wrapper, whatever the value
\* and the default are, and the default only when the sub-key is not present.
C5_DirectStoredOrDefault ==
  (last.op = "associated" /\ last.ret # Throw /\ last.comparator = "none")
  => last.ret =
       IF MapHas(AssocOf(slot, LastCarrier, last.source), LastKey)
       THEN AssocOf(slot, LastCarrier, last.source)[LastKey]
       ELSE last.defaultValue

\* C6 (default fallback): for a source for which associate was never called on
\* the carrier the read resolves, a direct associated returns the default.
C6_DefaultFallback ==
  (/\ last.op = "associated" /\ last.ret # Throw /\ last.comparator = "none"
   /\ <<LastCarrier, last.source>> \notin called)
  => last.ret = last.defaultValue

\* C7 (sub-key isolation): associate under a sub-key other than ALL leaves what
\* associated reads for every other (carrier, source, sub-key) as it was.
C7_SubkeyIsolation ==
  [][(IsCall("associate") /\ ResolveSubkey(last'.subkey, last'.optSubkey) # kAllKeys)
     => \A c \in Carriers, source \in Sources, k \in SubKeys, d \in Defaults :
          (<<c, source, k>> # <<DefaultStorage(last'.storage), last'.source,
                                ResolveSubkey(last'.subkey, last'.optSubkey)>>)
          => Read(slot', reclaimed', c, source, k, d)
               = Read(slot, reclaimed, c, source, k, d)]_vars

\* C8 (carrier isolation): associate and disassociate on one carrier never
\* change what associated returns for that source on another carrier.
C8_CarrierIsolation ==
  [][\A op \in {"associate", "disassociate"} :
       IsCall(op)
       => \A c \in Carriers, k \in SubKeys, d \in Defaults :
            (c # (IF op = "associate" THEN DefaultStorage(last'.storage)
                  ELSE Coalesce(last'.storage, globalThis)))
            => Read(slot', reclaimed', c, last'.source, k, d)
                 = Read(slot, reclaimed, c, last'.source, k, d)]_vars

\* C9 (ALL broadcast): associate(v, source, ALL) sets every sub-key present on
\* the source's wrapper to v and leaves the set of present sub-keys as it was:
\* none created (none under ALL itself), none removed, zero stays zero.
C9_AllBroadcast ==
  [][(IsCall("associate") /\ ResolveSubkey(last'.subkey, last'.optSubkey) = kAllKeys)
     => LET c == DefaultStorage(last'.storage)
            pre == AssocOf(slot, c, last'.source)
            post == AssocOf(slot', c, last'.source)
        IN /\ DOMAIN post = DOMAIN pre
           /\ kAllKeys \notin DOMAIN post
           /\ \A k \in DOMAIN post : post[k] = last'.value]_vars

\* C9 witness: the last call was an ALL broadcast of null onto a source that
\* holds the two sub-keys DEFAULT and k1
C9_Witness ==
  /\ last.op = "associate" /\ last.ret = Null /\ last.subkey = kAllKeys
  /\ AssocOf(slot, LastCarrier, last.source)
       = [k \in {kDefaultKey, "k1"} |-> Null]

\* C10 (one vs all): disassociate with a specific sub-key keeps the source's
\* entry in the Store, also when it removed the last sub-key; disassociate
\* with ALL leaves no entry for the source.
C10_OneVsAll ==
  [][IsCall("disassociate")
     => LET c == Coalesce(last'.storage, globalThis)
            key == IF last'.subkey = Undefined THEN kAllKeys ELSE last'.subkey
        IN IF key = kAllKeys
           THEN ~HasEntry(slot', c, last'.source)
           ELSE HasEntry(slot', c, last'.source) = HasEntry(slot, c, last'.source)]_vars

\* C10 witness: the last call removed the only sub-key left on a source, and
\* the source's entry is still in the Store, with no sub-key
C10_Witness ==
  /\ last.op = "disassociate" /\ last.ret = "true" /\ LastRemovedKey # kAllKeys
  /\ HasEntry(slot, LastRemovalCarrier, last.source)
  /\ AssocOf(slot, LastRemovalCarrier, last.source) = EmptyMap

C12_AccessorTuple ==
  [][/\ (/\ last.op = "set" /\ last.ret # Throw /\ last.subkey # kAllKeys
          /\ IsCall("get") /\ last'.source = last.source
          /\ last'.subkey = last.subkey /\ last'.storage = last.storage
          /\ last'.defaultValue = Undefined)
         => last'.ret = last.value
     /\ (/\ last.op = "forget" /\ last.ret # Throw /\ last.subkey # kAllKeys
          /\ IsCall("get") /\ last'.source = last.source
          /\ last'.subkey = last.subkey /\ last'.storage = last.storage)
         => last'.ret = last'.defaultValue
     /\ (IsCall("set") /\ last'.subkey # kAllKeys)
         => \A k \in (SubKeys \ {kAllKeys}) \cup {Undefined}, d \in Defaults :
              AssociationSubkey(k) # AssociationSubkey(last'.subkey)
              => Getter(slot', reclaimed', last'.source, k, last'.storage, d)
                   = Getter(slot, reclaimed, last'.source, k, last'.storage, d)]_vars

\* C13 (invalid carrier): a call of associate, associated or disassociate
\* whose options.storage is supplied and is not object-like raises the error
\* to its caller and leaves every Store and wrapper as it was.
C13_InvalidCarrier ==
  [][(/\ nops' = nops + 1
      /\ last'.op \in {"associate", "associated", "disassociate"}
      /\ last'.storage \notin Carriers \cup {Undefined})
     => (last'.ret = Throw /\ slot' = slot /\ detached' = detached)]_vars

\* C14 (reads create nothing): associated, with or without a comparator, and
\* every disassociate that returns false leave every carrier's slot, Store
\* and wrapper as they were.
C14_ReadsCreateNothing ==
  [][(IsCall("associated") \/ (IsCall("disassociate") /\ last'.ret = "false"))
     => (slot' = slot /\ detached' = detached)]_vars

\* C14 witness: the last call was a comparator read on the carrier derived
\* while neither derived nor its prototype has a Store, and globalThis has one
C14_Witness ==
  /\ last.op = "associated" /\ last.ret # Throw /\ last.comparator = "isO"
  /\ last.storage = "derived"
  /\ ~slot["derived"].has /\ ~slot["base"].has /\ slot[globalThis].has

\* a step that is a disassociate of the source, or an associate on it under
\* the sub-key or under ALL, on whatever carrier
Interferes(source, subkey) ==
  /\ nops' = nops + 1 /\ last'.source = source
  /\ \/ last'.op = "disassociate"
     \/ /\ last'.op = "associate"
        /\ ResolveSubkey(last'.subkey, last'.optSubkey) \in {subkey, kAllKeys}

\* C15 (primitive persistence): after associate(v, source, k) with a primitive
\* source, associated(source, k) on that carrier returns v after a step of
\* any kind (host steps and calls on other sources, sub-keys or carriers
\* included) that is no disassociate of the source, no overwrite of
\* (source, k) and no ALL broadcast on the source; and the wrapper of a
\* primitive source has no reclamation hook.
C15_PrimitivePersistence ==
  [][(/\ last.op = "associate" /\ last.ret # Throw /\ last.source \in PrimSources
      /\ LastKey # kAllKeys
      /\ ~Interferes(last.source, LastKey))
     => /\ Read(slot', reclaimed', LastCarrier, last.source, LastKey, Undefined)
             = last.value
        /\ \A c \in Carriers : \A i \in 1..Len(slot'[c].map) :
             slot'[c].map[i].w.isPrimitive => slot'[c].map[i].w.registry = "unset"]_vars

\* C16 (exported sentinels): the exported DEFAULT is the token used when the
\* sub-key is left out; associate called with the exported ALL overwrites the
\* sub-keys present and creates none; disassociate called with the exported
\* ALL leaves no entry for the source.
C16_ExportedSentinels ==
  [][/\ ExportedDefaultKey = kDefaultKey
     /\ (/\ IsCall("associate") /\ last'.subkey = ExportedAllKeys
         /\ last'.optSubkey = Undefined)
        => LET c == DefaultStorage(last'.storage)
               pre == AssocOf(slot, c, last'.source)
               post == AssocOf(slot', c, last'.source)
           IN /\ DOMAIN post = DOMAIN pre
              /\ \A k \in DOMAIN post : post[k] = last'.value
     /\ (IsCall("disassociate") /\ last'.subkey = ExportedAllKeys)
        => ~HasEntry(slot', Coalesce(last'.storage, globalThis), last'.source)]_vars

\* no source is the key of two entries of one Store
OneWrapperPerSource(sl) ==
  \A c \in Carriers : \A i, j \in 1..Len(sl[c].map) :
     sl[c].map[i].src = sl[c].map[j].src => i = j

\* C17 (Store uniqueness): in every reachable state a source has at most one
\* wrapper in a Store; getStorageMap(carrier, true) gives a Store, and called
\* where the carrier resolves a Store it gives that Store and changes nothing,
\* so a second call gives the Store of the first; an associate on a (carrier,
\* source) that has a wrapper adds no entry and keeps the sub-keys written
\* before, with their values except for the one written.
C17_StoreUniqueness ==
  [][/\ OneWrapperPerSource(slot) /\ OneWrapperPerSource(slot')
     /\ (IsCall("getStorageMap") /\ last'.create = "true")
        => /\ last'.ret # Undefined
           /\ SlotHolder(slot, DefaultStorage(last'.storage)) # NoCarrier
                => /\ slot' = slot
                   /\ last'.ret = SlotHolder(slot, DefaultStorage(last'.storage))
           /\ (/\ last.op = "getStorageMap" /\ last.create = "true"
               /\ last.storage = last'.storage)
                => (last'.ret = last.ret /\ slot' = slot)
     /\ (IsCall("associate") /\ HasEntry(slot, DefaultStorage(last'.storage), last'.source))
        => LET c == DefaultStorage(last'.storage)
               key == ResolveSubkey(last'.subkey, last'.optSubkey)
               pre == AssocOf(slot, c, last'.source)
               post == AssocOf(slot', c, last'.source)
           IN /\ \A h \in Carriers : Len(slot'[h].map) = Len(slot[h].map)
              /\ DOMAIN pre \subseteq DOMAIN post
              /\ key # kAllKeys
                   => \A k \in DOMAIN pre \ {key} : post[k] = pre[k]]_vars

\* C17 witness: getStorageMap(derived, true) was called twice in a row after
\* an associate on derived, and the Store still holds the source's sub-key
C17_Witness ==
  /\ last.op = "getStorageMap" /\ last.create = "true" /\ last.storage = "derived"
  /\ last.ret = "derived" /\ nops = 3
  /\ AssocOf(slot, "derived", "p") = [k \in {"k1"} |-> "a"]

\* the places of the Store wrappers a step changed
ChangedInStore ==
  {x \in Carriers \X (1..Cardinality(Sources)) :
     /\ x[2] <= Len(slot[x[1]].map) /\ x[2] <= Len(slot'[x[1]].map)
     /\ slot'[x[1]].map[x[2]].w # slot[x[1]].map[x[2]].w}

\* C18 (the reclamation callback is local): a run of the callback of one
\* wrapper leaves every Store's entries (which sources, in which order) and
\* every other wrapper as they were, and leaves that one wrapper with an empty
\* sub-key mapping and a cleared weak handle; run for a wrapper that
\* disassociate(source, ALL) took out of its Store, it changes no Store.
C18_CallbackLocal ==
  [][last'.op = "finalize"
     => /\ \A c \in Carriers :
             /\ slot'[c].has = slot[c].has
             /\ Len(slot'[c].map) = Len(slot[c].map)
             /\ \A i \in 1..Len(slot[c].map) : slot'[c].map[i].src = slot[c].map[i].src
        /\ Cardinality(ChangedInStore) + Cardinality(detached \ detached') = 1
        /\ \A x \in ChangedInStore :
             /\ slot'[x[1]].map[x[2]].w.associations = EmptyMap
             /\ slot'[x[1]].map[x[2]].w.ref = "unset"
        /\ \A w \in detached \ detached' :
             /\ slot' = slot
             /\ [w EXCEPT !.associations = EmptyMap, !.ref = "unset",
                          !.registry = "fired"] \in detached'
        /\ detached' \ detached \subseteq
             {w \in detached' : w.associations = EmptyMap /\ w.ref = "unset"}]_vars

\* C18 witness: the callback has just run for a wrapper outside of every
\* Store, between calls, and the Store of globalThis still holds the
\* sub-keys of another source
C18_Witness ==
  /\ last.op = "finalize"
  /\ \E w \in detached : w.registry = "fired" /\ w.associations = EmptyMap
  /\ AssocOf(slot, globalThis, "p") # EmptyMap

\* every wrapper there is: inside a Store or taken out of one
AllWrappers ==
  {slot[x[1]].map[x[2]].w :
     x \in {y \in Carriers \X (1..Cardinality(Sources)) : y[2] <= Len(slot[y[1]].map)}}
  \cup detached

\* C19 as stated: whenever get() of the wrapper of an object source returns
\* absent, the wrapper's sub-key mapping is empty.
C19_GoneMeansEmpty ==
  \A w \in AllWrappers :
     (~w.isPrimitive /\ WrapperGet(w, reclaimed) = Undefined)
        => w.associations = EmptyMap

\* C19 amended: once the reclamation callback of the wrapper of an object
\* source has run (its weak handle is cleared), get() returns absent and the
\* sub-key mapping is empty, and the wrapper stays so in every later state;
\* before the callback runs get() can return absent while the mapping still
\* holds its sub-keys.
C19_EmptyAfterCallback ==
  [][/\ \A w \in AllWrappers :
          (~w.isPrimitive /\ w.ref = "unset")
             => (WrapperGet(w, reclaimed) = Undefined /\ w.associations = EmptyMap)
     /\ \A w \in detached :
          (~w.isPrimitive /\ w.ref = "unset")
             => (w \in detached' /\ WrapperGet(w, reclaimed') = Undefined)]_vars

\* C19 witness: a call was made after the callback of a wrapper ran, and the
\* wrapper is still empty with its handle cleared
C19_Witness ==
  /\ last.op = "associated"
  /\ \E w \in detached : ~w.isPrimitive /\ w.ref = "unset" /\ w.associations = EmptyMap

\* C20 as stated: in every wrapper exactly one of value and the weak handle
\* is populated, the value when isPrimitive and the handle when not.
C20_ExactlyOnePopulated ==
  \A w \in AllWrappers :
     IF w.isPrimitive THEN w.value # "unset" /\ w.ref = "unset"
     ELSE w.value = "unset" /\ w.ref # "unset"

\* C20 amended: a wrapper with isPrimitive has the value and no weak handle;
\* a wrapper without it has no value, and has the weak handle exactly as long
\* as its reclamation callback has not run: after the callback neither of the
\* two is populated.
C20_PopulatedUntilCallback ==
  \A w \in AllWrappers :
     IF w.isPrimitive THEN w.value # "unset" /\ w.ref = "unset"
     ELSE w.value = "unset" /\ (w.ref # "unset" <=> w.registry # "fired")

\* C20 witness: a wrapper whose callback ran, with neither value nor handle,
\* next to the wrapper of a primitive on carrier base, with its value
C20_Witness ==
  /\ \E w \in detached : w.registry = "fired" /\ w.value = "unset" /\ w.ref = "unset"
  /\ HasEntry(slot, "base", "p")
  /\ \A i \in 1..Len(slot["base"].map) : slot["base"].map[i].w.value = "p"

\* a source that is not a primitive value: an object or a function
ObjectLike(source) == source \in ObjSources \cup FnSources

\* C21 (wrapper classification): the wrapper of a source has isPrimitive true
\* exactly when the source is not object-like; a wrapper with isPrimitive holds
\* a source that is not object-like in value and has no weak handle and no
\* reclamation hook; a wrapper without it has no value and has a reclamation
\* hook; and this stays so in every later state.
C21_Classification ==
  /\ \A c \in Carriers : \A i \in 1..Len(slot[c].map) :
        slot[c].map[i].w.isPrimitive = ~ObjectLike(slot[c].map[i].src)
  /\ \A w \in AllWrappers :
        IF w.isPrimitive
        THEN ~ObjectLike(w.value) /\ w.ref = "unset" /\ w.registry = "unset"
        ELSE w.value = "unset" /\ w.registry # "unset"

\* C22 (sub-key resolution): with the sub-key argument left out, whatever the
\* options are, associate writes under DEFAULT, a direct associated reads
\* under DEFAULT, and disassociate leaves no entry for the source; so
\* associated(source) right after associate(v, source) returns v, and
\* disassociate(source) right after it returns true.
C22_SubkeyResolution ==
  [][/\ (IsCall("associate") /\ last'.subkey = Undefined)
        => AssocOf(slot', DefaultStorage(last'.storage), last'.source)
             = MapSet(AssocOf(slot, DefaultStorage(last'.storage), last'.source),
                      kDefaultKey, last'.value)
     /\ (IsCall("associated") /\ last'.subkey = Undefined /\ last'.comparator = "none")
        => last'.ret = Read(slot, reclaimed, DefaultStorage(last'.storage),
                            last'.source, kDefaultKey, last'.defaultValue)
     /\ (IsCall("disassociate") /\ last'.subkey = Undefined)
        => ~HasEntry(slot', Coalesce(last'.storage, globalThis), last'.source)
     /\ (/\ last.op = "associate" /\ last.ret # Throw
         /\ last.subkey = Undefined /\ last.optSubkey = Undefined
         /\ last'.source = last.source /\ last'.subkey = Undefined
         /\ last'.optSubkey = Undefined /\ last'.storage = last.storage)
        => /\ (/\ IsCall("associated") /\ last'.comparator = "none"
               /\ last'.defaultValue = Undefined)
              => last'.ret = last.value
           /\ IsCall("disassociate") => last'.ret = "true"]_vars

\* C23 (removeStore): removeStorageMap(carrier) does not fail and returns the
\* Store the carrier resolves (undefined when it resolves none); afterwards
\* getStorageMap(carrier, false) gives undefined, every direct read on the
\* carrier gives the default, getStorageMap(carrier, true) attaches a new
\* empty Store to the carrier, and the slots of the other carriers are as
\* they were.
C23_RemoveStore ==
  [][(/\ nops' = nops + 1 /\ last'.op = "removeStorageMap"
      /\ IsCarrier(DefaultStorage(last'.storage)))
     => LET c == DefaultStorage(last'.storage)
            h == SlotHolder(slot, c)
        IN /\ last'.ret = (IF h = NoCarrier THEN Undefined ELSE h)
           /\ GetStorageMap(slot', c, FALSE) = NoCarrier
           /\ \A source \in Sources, k \in SubKeys, d \in Defaults :
                Read(slot', reclaimed', c, source, k, d) = d
           /\ GetStorageMapSlots(slot', c, TRUE)[c] = NewSlot
           /\ \A other \in Carriers \ {c} : slot'[other] = slot[other]]_vars

\* C24 (own slot only): for a carrier without a Store of its own,
\* getStorageMap(carrier, false) gives undefined and getStorageMap(carrier,
\* true) attaches a new empty Store to the carrier itself and gives it, also
\* when the carrier's prototype has a Store; and on such a carrier every
\* direct read gives the default, and an associate through it changes no
\* Store of another carrier.
C24_OwnSlotOnly ==
  [][/\ (IsCall("getStorageMap") /\ ~slot[DefaultStorage(last'.storage)].has)
        => LET c == DefaultStorage(last'.storage)
           IN IF last'.create = "true"
              THEN last'.ret = c /\ slot' = [slot EXCEPT ![c] = NewSlot]
              ELSE last'.ret = Undefined /\ slot' = slot
     /\ \A c \in Carriers, source \in Sources, k \in SubKeys, d \in Defaults :
          ~slot[c].has => Read(slot, reclaimed, c, source, k, d) = d
     /\ IsCall("associate")
        => \A other \in Carriers \ {DefaultStorage(last'.storage)} :
             slot'[other] = slot[other]]_vars

====
